---- MODULE Spec2Model ----
(***************************************************************************)
(* A network of WebEventEmitter nodes (events-by-webhook).  Every node is  *)
(* an EventEmitter with an HTTP endpoint (/emit, /status); emit and        *)
(* globalEmit dispatch locally and fan the event out to the addresses of   *)
(* serverList(); networkSync rebuilds the cached server list from the      *)
(* /status answers of the known servers.                                   *)
(*                                                                         *)
(* JavaScript values are modelled as strings: "true", "false" and          *)
(* "undefined"; a rejected promise or thrown error is "error"/"raised".    *)
(***************************************************************************)
EXTENDS Integers, Sequences, FiniteSets, TLC

\* ------------------------------------------------------------------ bounds
\* Most listeners registered for one event on one node.
MaxListeners == 2
\* Most emissions (emit / globalEmit calls) in one behaviour.
MaxEmits == 1
\* Most stand-alone isAlive probes in one behaviour.
MaxProbes == 1
\* Most event names with listeners on the queried emitter at one time.
MaxNames == 2
\* Most deliveries of one emit request in one receiving process.
MaxHeard == 2

\* ---------------------------------------------------------------- universe
\* WebEventEmitter instances; a node's name stands for the URL address()
\* reports for it.
Nodes == {"A", "B", "C"}
\* The two nodes the emission and probe scenarios run on.
Pair == {"A", "B"}
\* An address served by something that is not a WebEventEmitter of this
\* revision: it may answer any request in any way.
Foreign == {"X"}
\* The element a missing `servers` member puts into a server list.
Undef == "undefined"
Addrs == Nodes \cup Foreign
\* The URL of node A written without its trailing slash: address() reports
\* 'http://h:p/', a caller may pass 'http://h:p' as connectTo.
Alias == {"a"}
NoSeed == "none"
Events == {"E"}
\* Kinds of JavaScript values an argument can be.
ValueKinds == {"object", "array", "primitive", "function"}
\* The argument lists an emission is called with.
ArgLists == {<<>>, <<"primitive">>, <<"object", "function">>}
ListenerKinds == {"ok", "throws"}
JsBool == {"true", "false", "undefined"}

VARIABLES
    st,                 \* node -> lifecycle of the instance and its koaServer
    options,            \* node -> the options the instance was created with
    externalIf,         \* whether the host has an external network interface
    cachedServerList,   \* node -> most recent list of known emitters
    listeners,          \* node -> event -> listeners in registration order
    sync,               \* node -> the networkSync cycle in flight, if any
    em,                 \* the emissions made so far, with their fan-out
    probes,             \* stand-alone WebEventEmitterClient.isAlive calls
    timer,              \* node -> the keepaliveTimer of the instance
    wire,               \* an event name's way from a sender to receiving emitters
    addrCall,           \* one address() call: its circumstances and its result
    inbound             \* one POST /emit request with any body, and its handling

vars == <<st, options, externalIf, cachedServerList, listeners, sync, em, probes, timer,
          wire, addrCall, inbound>>

\* ------------------------------------------------------------ pure helpers
RECURSIVE Dedup(_)
\* Array.from(new Set(xs)): first occurrences, in order.
Dedup(xs) ==
    IF xs = <<>> THEN <<>>
    ELSE LET init == Dedup(SubSeq(xs, 1, Len(xs) - 1))
             last == xs[Len(xs)]
         IN  IF \E i \in 1..Len(init) : init[i] = last THEN init ELSE Append(init, last)

RECURSIVE Flatten(_)
\* _.flatten(lists)
Flatten(lists) ==
    IF lists = <<>> THEN <<>> ELSE Head(lists) \o Flatten(Tail(lists))

Range(xs) == {xs[i] : i \in 1..Len(xs)}

\* JavaScript a || b on the modelled values.
JsOr(a, b) == IF a = "true" THEN a ELSE b

\* Util.isPOJO: a non-null object whose prototype is Object.prototype.
isPOJO(v) == v = "object"

\* { ...args }: spreading the argument array always yields a plain object.
SpreadArgs(args) == "object"

\* The guard at the head of emit().
EmitArgsOk(args) == isPOJO(SpreadArgs(args))

\* The guard at the head of WebEventEmitterClient.emit(): TRUE when it throws.
ClientEmitRejects(args) ==
    Len(args) > 0 /\ ~(\A i \in 1..Len(args) : isPOJO(args[i]))

\* ------------------------------------------------- EventEmitter.emit (local)
\* Position of the first listener that throws, 0 if none does.
FirstThrow(ls) ==
    IF \E i \in 1..Len(ls) : ls[i] = "throws"
    THEN CHOOSE i \in 1..Len(ls) :
             ls[i] = "throws" /\ \A j \in 1..(i - 1) : ls[j] # "throws"
    ELSE 0

\* How many listeners one dispatch invokes: the loop over the listeners is
\* left by the first exception.
InvokedBy(ls) == IF FirstThrow(ls) = 0 THEN Len(ls) ELSE FirstThrow(ls)

\* localEmit / super.emit: "raised" when a listener threw, else whether the
\* event had listeners.
localEmit(ls) ==
    IF FirstThrow(ls) # 0 THEN "raised"
    ELSE IF Len(ls) > 0 THEN "true" ELSE "false"

NoInvocations == [n \in Nodes |-> [i \in 1..MaxListeners |-> 0]]

\* The invocation counters after one dispatch of ls on node n.
CountDispatch(inv, n, ls) ==
    [inv EXCEPT ![n] = [i \in DOMAIN inv[n] |->
                           IF i <= InvokedBy(ls) THEN inv[n][i] + 1 ELSE inv[n][i]]]

\* ------------------------------------------------------- address, serverList
AddrOf(n) == n

\* address(): null unless the koaServer is listening.
HasAddress(n) == st[n] = "listening"

\* address() throws when it has to guess (no baseUrl, no host option) and
\* finds no external interface.
AddressThrows(n) == st[n] = "listening" /\ ~externalIf

\* A server list that leaves the node's own address out.
CachedOnly(n) == Dedup(cachedServerList[n])

\* serverList(): own address first, then the cached list, deduplicated.
serverList(n) ==
    Dedup((IF HasAddress(n) THEN <<AddrOf(n)>> ELSE <<>>) \o cachedServerList[n])

\* The node an HTTP request to address a reaches: got joins prefixUrl and path
\* with exactly one slash, so both spellings of a URL reach the same server.
Normalize(a) == IF a = "a" THEN "A" ELSE a

\* ------------------------------------------------------------ HTTP: /status
TransportError == [ok |-> FALSE, success |-> "undefined", hasServers |-> FALSE, servers |-> <<>>]

\* What a foreign server may answer on GET /status.
ForeignStatusBodies ==
    { [ok |-> TRUE, success |-> "undefined", hasServers |-> FALSE, servers |-> <<>>],
      [ok |-> TRUE, success |-> "true", hasServers |-> FALSE, servers |-> <<>>],
      [ok |-> TRUE, success |-> "true", hasServers |-> TRUE, servers |-> <<"X">>] }

\* router.get('/status') of node a.
StatusBody(a) ==
    [ok |-> TRUE, success |-> "true", hasServers |-> TRUE, servers |-> serverList(a)]

\* The answers a GET /status to address a can end with.  A transport failure
\* or timeout is possible against every address.
StatusReplies(a) ==
    {TransportError} \cup
    (IF Normalize(a) \in Nodes
     THEN IF st[Normalize(a)] = "listening" /\ ~AddressThrows(Normalize(a))
          THEN {StatusBody(Normalize(a))} ELSE {}
     ELSE IF a \in Foreign THEN ForeignStatusBodies ELSE {})

\* WebEventEmitterClient.isAlive(): response.success, false on any exception.
isAlive(resp) == IF resp.ok THEN resp.success ELSE "false"

\* WebEventEmitterClient.serverNames(): result.servers, or a rejection.
serverNamesFails(resp) == ~resp.ok

serverNames(resp) == IF resp.hasServers THEN resp.servers ELSE <<Undef>>

\* What kind of value serverNames() hands back for an answer: the array of
\* the body, or undefined when the body has no `servers` member.
serverNamesKind(resp) == IF resp.hasServers THEN "array" ELSE "undefined"

\* -------------------------------------------------------- event identifiers
\* Event names are written with three pieces of text: 'Symbol(', ')' and one
\* other character.
Tokens == {"Symbol(", "x", ")"}

\* The texts of names: up to two pieces, and 'Symbol(x)'.
Texts ==
    {<<>>} \cup {<<a>> : a \in Tokens} \cup {<<a, b>> : a \in Tokens, b \in Tokens}
           \cup {<<"Symbol(", "x", ")">>}

\* A plain string name.
Str(t) == [kind |-> "string", text |-> t, id |-> "none"]

\* A symbol with description t; id tells symbols of one description apart.
Sym(t, id) == [kind |-> "symbol", text |-> t, id |-> id]

\* Symbol.for(t): the one symbol the registry holds for t, in every process.
SymbolFor(t) == Sym(t, "registry")

\* The processes that receive requests.
Procs == {"P", "Q"}

\* The identifiers a sender emits under: strings, symbols of its own, and
\* registry symbols.
WireEvents ==
    {Str(t) : t \in Texts} \cup {Sym(t, "sender") : t \in Texts}
                           \cup {SymbolFor(t) : t \in Texts}

\* The names listeners are registered under on the queried emitter.
ListenNames ==
    {Str(<<"x">>), Str(<<"Symbol(", "x", ")">>), SymbolFor(<<"x">>), Sym(<<"x">>, "Q")}

\* event.toString()
toString(x) == IF x.kind = "symbol" THEN <<"Symbol(">> \o x.text \o <<")">> ELSE x.text

\* stringToSymbolOrString(value)
stringToSymbolOrString(value) ==
    IF Len(value) >= 2 /\ value[1] = "Symbol(" /\ value[Len(value)] = ")"
    THEN SymbolFor(SubSeq(value, 2, Len(value) - 1))
    ELSE Str(value)

\* The IWebHookEvent WebEventEmitterClient.emit posts (args left out).
EmitData(event) == [event |-> toString(event), symbol |-> event.kind = "symbol"]

\* A receiver that decodes every name, whatever the symbol flag says.
DecodeAlways(data) == stringToSymbolOrString(data.event)

\* router.post('/emit'): the identifier localEmit is called with.
EmitTarget(data) ==
    IF data.symbol THEN stringToSymbolOrString(data.event) ELSE Str(data.event)

\* router.get('/event-names'): the `events` member as it is serialised - a
\* symbol in an array becomes null.
EventNamesBody(names) ==
    [i \in 1..Len(names) |->
        IF names[i].kind = "symbol" THEN [null |-> TRUE, text |-> <<>>]
                                    ELSE [null |-> FALSE, text |-> names[i].text]]

\* WebEventEmitterClient.eventNames(): result.events.map(stringToSymbolOrString);
\* null.startsWith raises.
ClientEventNames(body) ==
    IF \E i \in 1..Len(body) : body[i].null
    THEN [raised |-> TRUE, events |-> <<>>]
    ELSE [raised |-> FALSE,
          events |-> [i \in 1..Len(body) |-> stringToSymbolOrString(body[i].text)]]

\* No name on its way: nothing registered, sent, delivered or queried.
NoWire(event) ==
    [event |-> event, names |-> <<>>, msg |-> <<>>,
     heard |-> [p \in Procs |-> <<>>], query |-> <<>>]

\* ---------------------------------------------------------------- address()
\* Network interfaces as os.networkInterfaces() lists them.
If4 == [internal |-> FALSE, family |-> "IPv4", address |-> "ip4"]

If6 == [internal |-> FALSE, family |-> "IPv6", address |-> "ip6"]

Lo == [internal |-> TRUE, family |-> "IPv4", address |-> "lo"]

InterfaceLists ==
    {<<>>, <<Lo>>, <<If4>>, <<Lo, If4>>, <<Lo, If6>>, <<Lo, If6, If4>>, <<Lo, If4, If6>>}

\* The circumstances of an address() call: whether the koaServer listens,
\* options.baseUrl, options.host ("" when unset), options.port (0, a fixed
\* port, or explicitly undefined), the interfaces of the host, the forceIPv4
\* argument and the family the koaServer reports.
AddressInputs ==
    [listening : BOOLEAN, baseUrl : {"", "http://base"}, host : {"", "h"},
     port : {"0", "fixed", "undefined"}, interfaces : InterfaceLists,
     forceIPv4 : BOOLEAN, family : {"IPv4", "IPv6"}]

\* koaServer.address().port: the configured port, or the one the system chose.
BoundPort(in) == IF in.port = "fixed" THEN "fixed" ELSE "ephemeral"

AddrNull == [kind |-> "null", host |-> "", port |-> "", brackets |-> FALSE]

AddrThrows == [kind |-> "throws", host |-> "", port |-> "", brackets |-> FALSE]

\* options.baseUrl, as it is.
AddrBase(b) == [kind |-> "baseUrl", host |-> b, port |-> "", brackets |-> FALSE]

\* `http://${host}:${port}/`, the host in brackets for IPv6.
AddrUrl(host, port, brackets) ==
    [kind |-> "url", host |-> host, port |-> port, brackets |-> brackets]

External(ifs) == SelectSeq(ifs, LAMBDA i : ~i.internal)

\* WebEventEmitter.address(forceIPv4 = true)
address(in) ==
    IF ~in.listening THEN AddrNull
    ELSE IF in.baseUrl # "" THEN AddrBase(in.baseUrl)
    ELSE IF in.host # ""
    THEN AddrUrl(in.host, IF in.port = "0" THEN BoundPort(in) ELSE in.port, FALSE)
    ELSE LET networkCandidates == External(in.interfaces)
             wanted == IF in.forceIPv4 THEN "IPv4" ELSE in.family
             found == SelectSeq(networkCandidates, LAMBDA i : i.family = wanted)
         IN  IF Len(networkCandidates) = 0 THEN AddrThrows
             ELSE IF Len(found) > 0
             THEN AddrUrl(found[1].address, BoundPort(in), found[1].family = "IPv6")
             ELSE AddrNull

NoAddrCall ==
    [in |-> [listening |-> FALSE, baseUrl |-> "", host |-> "", port |-> "0",
             interfaces |-> <<>>, forceIPv4 |-> TRUE, family |-> "IPv4"],
     done |-> FALSE, out |-> AddrNull]

\* ------------------------------------------------------ POST /emit bodies
\* The members a parsed request body can have: `event` missing, null, a
\* string or a number; `symbol` missing, null, a boolean or a string; `args`
\* missing, null, an array, an object or a string; further members or none.
Bodies ==
    [event : {"absent", "null", "string", "number"},
     symbol : {"absent", "null", "true", "false", "string"},
     args : {"absent", "null", "array", "object", "string"},
     extra : BOOLEAN]

\* Util.isIWebHookEvent: `!= undefined` and `== undefined` treat null as
\* undefined; typeof null and typeof [] are 'object'.
isIWebHookEvent(obj) ==
    /\ obj.event \notin {"absent", "null"}
    /\ obj.symbol \in {"absent", "null", "true", "false"}
    /\ obj.args \in {"absent", "null", "array", "object"}

\* router.post('/emit') on an emitter whose listeners for the event are ls:
\* a body the guard accepts is dispatched - when `symbol` is true the name
\* first goes through stringToSymbolOrString, whose value.startsWith raises
\* for a name that is no string, and koa answers 500; any other body is
\* answered 400.
PostEmit(body, ls) ==
    IF isIWebHookEvent(body)
    THEN IF body.symbol = "true" /\ body.event # "string"
         THEN [status |-> "500", dispatched |-> FALSE, invoked |-> 0]
         ELSE IF localEmit(ls) = "raised"
         THEN [status |-> "500", dispatched |-> TRUE, invoked |-> InvokedBy(ls)]
         ELSE [status |-> "200", dispatched |-> TRUE, invoked |-> InvokedBy(ls)]
    ELSE [status |-> "400", dispatched |-> FALSE, invoked |-> 0]

NoInbound ==
    [body |-> [event |-> "string", symbol |-> "absent", args |-> "absent", extra |-> FALSE],
     ls |-> <<>>, done |-> FALSE,
     out |-> [status |-> "none", dispatched |-> FALSE, invoked |-> 0]]

\* ------------------------------------------------------------------- Init
\* A keepaliveTimer: whether it is in the runtime's timer list, and whether
\* it still holds its callback.
NoTimer == [scheduled |-> FALSE, onTimeout |-> FALSE]

\* setTimeout(callback, keepaliveInterval) in the constructor.
NewTimer == [scheduled |-> TRUE, onTimeout |-> TRUE]

\* A callback that ends without re-arming its timer.
NoRefresh(t) == t

\* this.keepaliveTimer.refresh() in the callback's `finally`: the timer, which
\* has fired, is put back into the timer list.
Refresh(t) == [t EXCEPT !.scheduled = TRUE]

\* A clearTimeout that takes the timer off the list but leaves its callback.
ClearedKeepsCallback(t) == [t EXCEPT !.scheduled = FALSE]

\* A clearTimeout that flips the callback slot: clearing twice re-arms.
ClearToggles(t) == [scheduled |-> FALSE, onTimeout |-> ~t.onTimeout]

\* clearTimeout(this.keepaliveTimer): the timer leaves the list and loses its
\* callback; on a timer that holds no callback the call does nothing.
Cleared(t) == IF t.onTimeout THEN [scheduled |-> FALSE, onTimeout |-> FALSE] ELSE t

NoSync == [active |-> FALSE, src |-> "none", servers |-> <<>>, br |-> <<>>]

\* No instance exists yet.
InitNodes ==
    /\ st = [n \in Nodes |-> "absent"]
    /\ options = [n \in Nodes |-> [connectTo |-> NoSeed]]
    /\ cachedServerList = [n \in Nodes |-> <<>>]
    /\ listeners = [n \in Nodes |-> [e \in Events |-> <<>>]]
    /\ sync = [n \in Nodes |-> NoSync]
    /\ em = <<>>
    /\ probes = <<>>
    /\ timer = [n \in Nodes |-> NoTimer]

Init ==
    /\ InitNodes
    /\ externalIf \in BOOLEAN
    /\ wire = NoWire(Str(<<"x">>))
    /\ addrCall = NoAddrCall
    /\ inbound = NoInbound

\* An event name, any of WireEvents, about to be emitted to remote emitters.
InitWire ==
    /\ InitNodes
    /\ externalIf = TRUE
    /\ wire \in {NoWire(x) : x \in WireEvents}
    /\ addrCall = NoAddrCall
    /\ inbound = NoInbound

\* An address() call about to be made, in any of the circumstances.
InitAddress ==
    /\ InitNodes
    /\ externalIf = TRUE
    /\ wire = NoWire(Str(<<"x">>))
    /\ addrCall \in {[in |-> i, done |-> FALSE, out |-> AddrNull] : i \in AddressInputs}
    /\ inbound = NoInbound

\* A POST /emit with any body about to reach an emitter that has no listener,
\* one listener, or one that throws.
InitInbound ==
    /\ InitNodes
    /\ externalIf = TRUE
    /\ wire = NoWire(Str(<<"x">>))
    /\ addrCall = NoAddrCall
    /\ inbound \in {[NoInbound EXCEPT !.body = b, !.ls = l] :
                        b \in Bodies, l \in {<<>>, <<"ok">>, <<"throws">>}}

\* ------------------------------------------------------ Create, networkSync
\* Tasks started one after the other: only the first has probed, the others
\* wait for their predecessor.
SyncTasksChained(servers) ==
    [i \in 1..Len(servers) |->
        [st |-> IF i = 1 THEN "probe" ELSE "waiting", err |-> FALSE, val |-> <<>>,
         names |-> "none"]]

\* The tasks networkSync starts, one per server: each first probes isAlive.
SyncTasks(servers) ==
    [i \in 1..Len(servers) |-> [st |-> "probe", err |-> FALSE, val |-> <<>>, names |-> "none"]]

\* A networkSync that walks the given seed only, never the cached list.
SeedOnly(n, seed) == IF seed # NoSeed THEN <<seed>> ELSE <<>>

\* A networkSync that goes back to the bootstrap address when the cached
\* list is empty.
RetrySeed(n, seed) ==
    IF seed # NoSeed THEN <<seed>>
    ELSE IF cachedServerList[n] = <<>> /\ options[n].connectTo # NoSeed
    THEN <<options[n].connectTo>>
    ELSE cachedServerList[n]

\* networkSync(server?): the servers the cycle walks.
OldServers(n, seed) == IF seed # NoSeed THEN <<seed>> ELSE cachedServerList[n]

\* A sync task that does not merge the list the server reported.
OnlyServer(server, resp) == <<server>>

\* What one sync task returns for a server that answered alive.
SyncTaskValue(server, resp) == <<server>> \o serverNames(resp)

\* The list networkSync stores when every task has returned.
NewServerList(br) == Dedup(Flatten([i \in 1..Len(br) |-> br[i].val]))

\* An instance whose Create threw is dropped by its caller.
Discarded == [connectTo |-> NoSeed]

\* WebEventEmitter.Create(options) up to the start of its networkSync: the
\* constructor seeds the cached list with connectTo; without a seed Create
\* goes on to listen(); with one, `if (!await remote.isAlive()) throw`, and
\* networkSync(connectTo) starts its tasks.
Create(n, seed) ==
    /\ st[n] = "absent"
    /\ IF seed = NoSeed
       THEN /\ st' = [st EXCEPT ![n] = "ready"]
            /\ options' = [options EXCEPT ![n] = [connectTo |-> seed]]
            /\ cachedServerList' = [cachedServerList EXCEPT ![n] = <<>>]
            /\ timer' = [timer EXCEPT ![n] = NewTimer]
            /\ UNCHANGED sync
       ELSE \E resp \in StatusReplies(seed) :
               IF isAlive(resp) = "true"
               THEN /\ st' = [st EXCEPT ![n] = "syncing"]
                    /\ options' = [options EXCEPT ![n] = [connectTo |-> seed]]
                    /\ cachedServerList' = [cachedServerList EXCEPT ![n] = <<seed>>]
                    /\ sync' = [sync EXCEPT ![n] =
                                   [active |-> TRUE, src |-> "create",
                                    servers |-> <<seed>>, br |-> SyncTasks(<<seed>>)]]
                    /\ timer' = [timer EXCEPT ![n] = NewTimer]
               ELSE /\ st' = [st EXCEPT ![n] = "failed"]
                    /\ UNCHANGED <<options, externalIf, cachedServerList, sync, timer>>
    /\ UNCHANGED <<externalIf, listeners, em, probes, wire, addrCall, inbound>>

\* One sync task's `await server.isAlive()`.  `names` records how the task's
\* serverNames() call ended: "array", "undefined" or "raised".
SyncProbe(n, i) ==
    /\ sync[n].active
    /\ i \in 1..Len(sync[n].br)
    /\ sync[n].br[i].st = "probe"
    /\ \E resp \in StatusReplies(sync[n].servers[i]) :
          sync' = [sync EXCEPT ![n].br[i] =
                      IF isAlive(resp) = "true"
                      THEN [st |-> "names", err |-> FALSE, val |-> <<>>, names |-> "none"]
                      ELSE [st |-> "done", err |-> FALSE, val |-> <<>>, names |-> "none"]]
    /\ UNCHANGED <<st, options, externalIf, cachedServerList, listeners, em, probes, timer, wire, addrCall, inbound>>

\* One sync task's `await server.serverNames()`: a second GET /status.
SyncNames(n, i) ==
    /\ sync[n].active
    /\ i \in 1..Len(sync[n].br)
    /\ sync[n].br[i].st = "names"
    /\ \E resp \in StatusReplies(sync[n].servers[i]) :
          sync' = [sync EXCEPT ![n].br[i] =
                      IF serverNamesFails(resp)
                      THEN [st |-> "done", err |-> TRUE, val |-> <<>>, names |-> "raised"]
                      ELSE [st |-> "done", err |-> FALSE,
                            val |-> SyncTaskValue(sync[n].servers[i], resp),
                            names |-> serverNamesKind(resp)]]
    /\ UNCHANGED <<st, options, externalIf, cachedServerList, listeners, em, probes, timer, wire, addrCall, inbound>>

\* Promise.all resolved: the cached list is replaced.
SyncFinish(n) ==
    /\ sync[n].active
    /\ \A i \in 1..Len(sync[n].br) : sync[n].br[i].st = "done" /\ ~sync[n].br[i].err
    /\ cachedServerList' = [cachedServerList EXCEPT ![n] = NewServerList(sync[n].br)]
    /\ sync' = [sync EXCEPT ![n] = NoSync]
    /\ st' = [st EXCEPT ![n] = IF sync[n].src = "create" THEN "ready" ELSE @]
    /\ timer' = [timer EXCEPT ![n] = IF sync[n].src = "timer" THEN Refresh(@) ELSE @]
    /\ UNCHANGED <<options, externalIf, listeners, em, probes, wire, addrCall, inbound>>

\* A Create that swallows the failure of its seed sync and goes on to listen.
SyncRejectSwallowed(n) ==
    /\ sync[n].active
    /\ \E i \in 1..Len(sync[n].br) : sync[n].br[i].err
    /\ sync' = [sync EXCEPT ![n] = NoSync]
    /\ IF sync[n].src = "create"
       THEN /\ st' = [st EXCEPT ![n] = "ready"]
            /\ UNCHANGED <<options, cachedServerList, timer>>
       ELSE /\ timer' = [timer EXCEPT ![n] = Refresh(@)]
            /\ UNCHANGED <<st, options, cachedServerList>>
    /\ UNCHANGED <<externalIf, listeners, em, probes, wire, addrCall, inbound>>

\* Promise.all rejected with the first task that failed: networkSync throws
\* and the cached list keeps its value; Create rethrows, the keepaliveTimer
\* callback logs the error and refreshes the timer.
SyncReject(n) ==
    /\ sync[n].active
    /\ \E i \in 1..Len(sync[n].br) : sync[n].br[i].err
    /\ sync' = [sync EXCEPT ![n] = NoSync]
    /\ IF sync[n].src = "create"
       THEN /\ st' = [st EXCEPT ![n] = "failed"]
            /\ options' = [options EXCEPT ![n] = Discarded]
            /\ cachedServerList' = [cachedServerList EXCEPT ![n] = <<>>]
            /\ timer' = [timer EXCEPT ![n] = NoTimer]
       ELSE /\ timer' = [timer EXCEPT ![n] = Refresh(@)]
            /\ UNCHANGED <<st, options, cachedServerList>>
    /\ UNCHANGED <<externalIf, listeners, em, probes, wire, addrCall, inbound>>

\* listen(): the koaServer starts listening and Create returns the instance.
Listen(n) ==
    /\ st[n] = "ready"
    /\ st' = [st EXCEPT ![n] = "listening"]
    /\ UNCHANGED <<options, externalIf, cachedServerList, listeners, sync, em, probes, timer, wire, addrCall, inbound>>

\* A close() that also discards the cached list.
CloseForgets(n) ==
    /\ st[n] = "listening"
    /\ st' = [st EXCEPT ![n] = "closed"]
    /\ cachedServerList' = [cachedServerList EXCEPT ![n] = <<>>]
    /\ UNCHANGED <<options, externalIf, listeners, sync, em, probes, timer, wire, addrCall, inbound>>

\* close(): koaServer.close().
Close(n) ==
    /\ st[n] = "listening"
    /\ st' = [st EXCEPT ![n] = "closed"]
    /\ UNCHANGED <<options, externalIf, cachedServerList, listeners, sync, em, probes, timer, wire, addrCall, inbound>>

\* Whether Create has returned the instance to its caller.
Created(n) == st[n] \in {"listening", "closed", "disposed"}

\* A timer that stays armed when it fires, as one set with setInterval.
TimerFireStaysArmed(n) ==
    /\ Created(n)
    /\ ~sync[n].active
    /\ timer[n].scheduled /\ timer[n].onTimeout
    /\ sync' = [sync EXCEPT ![n] =
                   [active |-> TRUE, src |-> "timer",
                    servers |-> cachedServerList[n],
                    br |-> [i \in 1..Len(cachedServerList[n]) |->
                               [st |-> "probe", err |-> FALSE, val |-> <<>>, names |-> "none"]]]]
    /\ UNCHANGED <<st, options, externalIf, cachedServerList, listeners, em, probes, timer, wire, addrCall, inbound>>

\* The keepaliveTimer fires: its callback starts networkSync() over the
\* cached list.  (keepaliveInterval, a minute by default, is taken to be
\* longer than Create and than one sync cycle.)
TimerFire(n) ==
    /\ Created(n)
    /\ ~sync[n].active
    /\ timer[n].scheduled /\ timer[n].onTimeout
    /\ timer' = [timer EXCEPT ![n].scheduled = FALSE]
    /\ sync' = [sync EXCEPT ![n] =
                   [active |-> TRUE, src |-> "timer",
                    servers |-> OldServers(n, NoSeed),
                    br |-> SyncTasks(OldServers(n, NoSeed))]]
    /\ UNCHANGED <<st, options, externalIf, cachedServerList, listeners, em, probes, wire, addrCall, inbound>>

\* A timer without callback expires: the runtime drops it, nothing runs.
TimerDrop(n) ==
    /\ timer[n].scheduled /\ ~timer[n].onTimeout
    /\ timer' = [timer EXCEPT ![n].scheduled = FALSE]
    /\ UNCHANGED <<st, options, externalIf, cachedServerList, listeners, sync, em, probes, wire, addrCall, inbound>>

\* What dispose() does to an instance in lifecycle state s with keepalive
\* timer t: clearTimeout(keepaliveTimer), then koaServer?.close() without a
\* callback, which stops a listening server and is silent on a stopped one.
DisposeEffect(s, t) == [st |-> "disposed", timer |-> Cleared(t), raised |-> FALSE]

\* dispose(), on any instance Create has returned, disposed ones included.
Dispose(n) ==
    /\ Created(n)
    /\ timer' = [timer EXCEPT ![n] = DisposeEffect(st[n], @).timer]
    /\ st' = [st EXCEPT ![n] = DisposeEffect(st[n], timer[n]).st]
    /\ UNCHANGED <<options, externalIf, cachedServerList, listeners, sync, em, probes, wire, addrCall, inbound>>

\* emitter.on(event, listener)
On(n, ev, kind) ==
    /\ Created(n)
    /\ Len(listeners[n][ev]) < MaxListeners
    /\ listeners' = [listeners EXCEPT ![n][ev] = Append(@, kind)]
    /\ UNCHANGED <<st, options, externalIf, cachedServerList, sync, em, probes, timer, wire, addrCall, inbound>>

\* serverStatus(): 'RUNNING', whatever the instance's state.
serverStatus(n) == "RUNNING"

\* networkStatus(): 'HEALTHY', whatever the last sync cycle found.
networkStatus(n) == "HEALTHY"

\* router.get('/status'): the `eventNames` member of the body, an empty array.
StatusEventNames(a) == <<>>

\* eventNames() of node n: the events that have listeners.
eventNames(n) == {e \in Events : listeners[n][e] # <<>>}

\* --------------------------------------------------------------- HTTP: /emit
\* The arguments a listener of the emitting node is invoked with:
\* localEmit(event, ...args) spreads them.
LocalCallArgs(args) == args

\* The arguments a listener of a receiving node is invoked with: the handler
\* calls this.localEmit(event, data.args), the whole array as one argument.
HandlerCallArgs(args) == <<"array">>

\* What a foreign server may answer on POST /emit: an acknowledgement without
\* `success`, one without `hadListeners`, or a well-formed one.
ForeignEmitBodies ==
    { [ok |-> TRUE, success |-> "undefined", had |-> "undefined"],
      [ok |-> TRUE, success |-> "true", had |-> "undefined"],
      [ok |-> TRUE, success |-> "true", had |-> "true"],
      [ok |-> TRUE, success |-> "true", had |-> "false"] }

\* router.post('/emit') of node a for a well-formed IWebHookEvent: the body
\* carries localEmit's result; a listener that throws makes koa answer 500.
EmitBody(a, ev) ==
    IF localEmit(listeners[a][ev]) = "raised"
    THEN [ok |-> FALSE, success |-> "undefined", had |-> "undefined"]
    ELSE [ok |-> TRUE, success |-> "true", had |-> localEmit(listeners[a][ev])]

\* Whether a request to address a reaches the /emit route of a node.
Served(a) == Normalize(a) \in Nodes /\ st[Normalize(a)] = "listening"

\* The answers a POST /emit that reaches address a can get.
EmitReplies(a, ev) ==
    IF Served(a) THEN {EmitBody(Normalize(a), ev)}
    ELSE IF a \in Foreign THEN ForeignEmitBodies
    ELSE {}

\* WebEventEmitterClient.emit() after the POST: hadListeners on success,
\* a rejection ("error") otherwise.
ClientEmitResult(reply) ==
    IF reply.ok /\ reply.success = "true" THEN reply.had ELSE "error"

\* ------------------------------------------------------------ convergence
\* Whether the server at address a answers GET /status (when the request
\* and the response get through).
Alive(a) == Served(a) /\ ~AddressThrows(Normalize(a))

\* What a sync task returns for a server when no request is lost.
IdealTask(server) ==
    IF Alive(server)
    THEN SyncTaskValue(server, StatusBody(Normalize(server)))
    ELSE <<>>

\* The list a sync cycle of node n would store now if no request were lost.
IdealCycle(n) ==
    NewServerList([i \in 1..Len(cachedServerList[n]) |->
                      [val |-> IdealTask(cachedServerList[n][i])]])

\* Every node has run sync cycles until its list no longer changes: no cycle
\* is in flight and a further cycle would store the list that is stored.
Converged ==
    \A n \in Nodes :
        /\ ~sync[n].active
        /\ Created(n) => Range(IdealCycle(n)) = Range(cachedServerList[n])

\* The addresses S together with the peer lists of the alive servers in S.
Grow(S) ==
    S \cup UNION {Range(serverList(Normalize(a))) : a \in {x \in S : Alive(x)}}

RECURSIVE Closure(_)
Closure(S) == IF Grow(S) = S THEN S ELSE Closure(Grow(S))

\* The addresses reachable from node n: the alive servers found by following
\* reported peer lists from n's own list.
Reach(n) == {a \in Closure(Range(serverList(n))) : Alive(a)}

\* ------------------------------------------------- emit, globalEmit, fan-out
\* A `.catch` that lets a failed call count as a listener.
CatchCountsAsListener(val) == IF val = "error" THEN "true" ELSE val

\* The `.catch(err => false)` of one remoteEmit branch.
CatchFalse(val) == IF val = "error" THEN "false" ELSE val

RECURSIVE ReduceOr(_, _)
\* _.reduce(collection, (acc, val) => acc || val, acc)
ReduceOr(vals, acc) ==
    IF vals = <<>> THEN acc ELSE ReduceOr(Tail(vals), JsOr(acc, Head(vals)))

\* What remoteEmitOnly resolves to once every branch has settled.
remoteEmitOnly(br) == ReduceOr([i \in 1..Len(br) |-> CatchFalse(br[i].val)], "false")

\* An emit that hands its caller the OR with the remote result.
WaitsForRemote(kind, local, remote) == JsOr(local, remote)

\* The value the caller of an emission holds once the remote phase is over:
\* emit has returned the local result, globalEmit resolves to the OR of both.
CallerValue(kind, local, remote) ==
    IF kind = "emit" THEN local ELSE JsOr(local, remote)

\* The branch remoteEmit opens for one server: WebEventEmitterClient.emit
\* rejects before the POST when an argument is no POJO.
OpenBranch(args) ==
    IF ClientEmitRejects(args)
    THEN [st |-> "settled", posted |-> FALSE, val |-> "error"]
    ELSE [st |-> "sent", posted |-> TRUE, val |-> "none"]

\* The servers the remote phase of an emission on node n addresses.
FanOutTargets(n) == serverList(n)

\* Whether node m has listeners for ev and none of them throws.
HasWorkingListener(m, ev) ==
    listeners[m][ev] # <<>> /\ FirstThrow(listeners[m][ev]) = 0

NewEmission(n, kind, ev, args) ==
    [origin |-> n, kind |-> kind, event |-> ev, args |-> args,
     okAtCall |-> {m \in Nodes : HasWorkingListener(m, ev)},
     local |-> "none", localDone |-> FALSE, pc |-> "call", err |-> "none",
     targets |-> <<>>, br |-> <<>>, ret |-> "pending", remote |-> "pending",
     inv |-> NoInvocations]

\* An emission that opens its remote phase without having dispatched locally.
RemoteFirst(n, kind, ev, args) ==
    [NewEmission(n, kind, ev, args) EXCEPT !.pc = "snap", !.targets = FanOutTargets(n)]

\* The synchronous part of emit / globalEmit: emit's argument guard, the
\* local dispatch, and the evaluation of serverList() in remoteEmitOnly.
\* A listener that throws ends the call (emit throws, globalEmit rejects);
\* a serverList() that throws rejects remoteEmitOnly, which emit only logs.
SyncPart(n, kind, ev, args) ==
    LET e0 == NewEmission(n, kind, ev, args)
        ls == listeners[n][ev]
        local == localEmit(ls)
        e1 == [e0 EXCEPT !.local = local, !.localDone = TRUE,
                         !.inv = CountDispatch(e0.inv, n, ls)]
    IN  IF kind = "emit" /\ ~EmitArgsOk(args)
        THEN [e0 EXCEPT !.pc = "done", !.ret = "raised", !.err = "serialization"]
        ELSE IF local = "raised"
        THEN [e1 EXCEPT !.pc = "done", !.ret = "raised", !.err = "listener"]
        ELSE IF AddressThrows(n)
        THEN [e1 EXCEPT !.pc = "done", !.err = "address", !.remote = "error",
                        !.ret = IF kind = "emit" THEN local ELSE "raised"]
        ELSE [e1 EXCEPT !.pc = "snap", !.targets = FanOutTargets(n),
                        !.ret = IF kind = "emit" THEN local ELSE "pending"]

\* emit(event, ...args) and globalEmit(event, ...args), up to the first await.
EmitCall(n, kind, ev, args) ==
    /\ Created(n)
    /\ Len(em) < MaxEmits
    /\ em' = Append(em, SyncPart(n, kind, ev, args))
    /\ UNCHANGED <<st, options, externalIf, cachedServerList, listeners, sync, probes, timer, wire, addrCall, inbound>>

\* A remote phase that reads the server list again when it opens its
\* branches, in place of the snapshot its serverList() call returned.
FanOutRereads(e) ==
    /\ e \in 1..Len(em)
    /\ em[e].pc = "snap"
    /\ em' = [em EXCEPT ![e].pc = "fanout",
                        ![e].targets = serverList(em[e].origin),
                        ![e].br = [i \in 1..Len(serverList(em[e].origin)) |->
                                      OpenBranch(em[e].args)]]
    /\ UNCHANGED <<st, options, externalIf, cachedServerList, listeners, sync, probes, timer, wire, addrCall, inbound>>

\* remoteEmitOnly after `await this.serverList()`: one remoteEmit per server,
\* all started before any is awaited.
FanOut(e) ==
    /\ e \in 1..Len(em)
    /\ em[e].pc = "snap"
    /\ em' = [em EXCEPT ![e].pc = "fanout",
                        ![e].br = [i \in 1..Len(em[e].targets) |-> OpenBranch(em[e].args)]]
    /\ UNCHANGED <<st, options, externalIf, cachedServerList, listeners, sync, probes, timer, wire, addrCall, inbound>>

\* What WebEventEmitterClient.emit can end with for one answer of the server:
\* the answer's value, or "error" when the response is lost or times out.
BranchOutcomes(reply) == {ClientEmitResult(reply), "error"}

\* A handler that passes the event on: handling the POST of branch i opens
\* a further request, back to the emitting node.
HandleEmitPassesOn(e, i) ==
    /\ e \in 1..Len(em)
    /\ i \in 1..Len(em[e].br)
    /\ em[e].br[i].st = "sent"
    /\ Len(em[e].br) < 4
    /\ em' = [em EXCEPT ![e].br = Append([@ EXCEPT ![i].st = "settled", ![i].val = "false"],
                                         OpenBranch(em[e].args)),
                        ![e].targets = Append(@, AddrOf(em[e].origin))]
    /\ UNCHANGED <<st, options, externalIf, cachedServerList, listeners, sync, probes, timer, wire, addrCall, inbound>>

\* The POST of branch i arrives: the addressed server handles it (a node
\* dispatches the event to its own listeners) and the branch settles with
\* the answer, or with a failure when the response does not come back.
HandleEmit(e, i) ==
    /\ e \in 1..Len(em)
    /\ i \in 1..Len(em[e].br)
    /\ em[e].br[i].st = "sent"
    /\ LET a == em[e].targets[i]
       IN  \E reply \in EmitReplies(a, em[e].event) : \E val \in BranchOutcomes(reply) :
              em' = [em EXCEPT ![e].br[i].st = "settled",
                               ![e].br[i].val = val,
                               ![e].inv = IF Served(a)
                                          THEN CountDispatch(@, Normalize(a),
                                                             listeners[Normalize(a)][em[e].event])
                                          ELSE @]
    /\ UNCHANGED <<st, options, externalIf, cachedServerList, listeners, sync, probes, timer, wire, addrCall, inbound>>

\* The POST of branch i does not arrive (no server at the address, connection
\* refused, timeout): WebEventEmitterClient.emit rejects.
TransportFail(e, i) ==
    /\ e \in 1..Len(em)
    /\ i \in 1..Len(em[e].br)
    /\ em[e].br[i].st = "sent"
    /\ em' = [em EXCEPT ![e].br[i].st = "settled", ![e].br[i].val = "error"]
    /\ UNCHANGED <<st, options, externalIf, cachedServerList, listeners, sync, probes, timer, wire, addrCall, inbound>>

\* Promise.all over the branches resolves: remoteEmitOnly returns, globalEmit
\* resolves; emit only logs the value.
Finish(e) ==
    /\ e \in 1..Len(em)
    /\ em[e].pc = "fanout"
    /\ \A i \in 1..Len(em[e].br) : em[e].br[i].st = "settled"
    /\ em' = [em EXCEPT ![e].pc = "done",
                        ![e].remote = remoteEmitOnly(em[e].br),
                        ![e].ret = CallerValue(em[e].kind, em[e].local,
                                               remoteEmitOnly(em[e].br))]
    /\ UNCHANGED <<st, options, externalIf, cachedServerList, listeners, sync, probes, timer, wire, addrCall, inbound>>

\* --------------------------------------------- stand-alone liveness probes
\* new WebEventEmitterClient(a).isAlive(): the GET /status is sent.
ProbeStart(a) ==
    /\ Len(probes) < MaxProbes
    /\ probes' = Append(probes, [target |-> a, st |-> "sent", resp |-> TransportError,
                                 result |-> "pending"])
    /\ UNCHANGED <<st, options, externalIf, cachedServerList, listeners, sync, em, timer, wire, addrCall, inbound>>

\* The probe ends: with the peer's answer, or with a failure or timeout.
ProbeEnd(p) ==
    /\ p \in 1..Len(probes)
    /\ probes[p].st = "sent"
    /\ \E resp \in StatusReplies(probes[p].target) :
          probes' = [probes EXCEPT ![p] = [@ EXCEPT !.st = "done", !.resp = resp,
                                                    !.result = isAlive(resp)]]
    /\ UNCHANGED <<st, options, externalIf, cachedServerList, listeners, sync, em, timer, wire, addrCall, inbound>>

\* ------------------------------------------- event names across the wire
\* emitter.on(x, listener) on the queried emitter, x not yet listened to.
WireOn(x) ==
    /\ x \notin Range(wire.names)
    /\ Len(wire.names) < MaxNames
    /\ wire' = [wire EXCEPT !.names = Append(@, x)]
    /\ UNCHANGED <<st, options, externalIf, cachedServerList, listeners, sync, em, probes, timer, addrCall, inbound>>

\* emitter.off(x, listener) for the last listener of x.
WireOff(x) ==
    /\ x \in Range(wire.names)
    /\ wire' = [wire EXCEPT !.names = SelectSeq(@, LAMBDA y : y # x)]
    /\ UNCHANGED <<st, options, externalIf, cachedServerList, listeners, sync, em, probes, timer, addrCall, inbound>>

\* WebEventEmitterClient.emit(event): the request is posted.
WireEmit ==
    /\ wire.msg = <<>>
    /\ wire' = [wire EXCEPT !.msg = <<EmitData(wire.event)>>]
    /\ UNCHANGED <<st, options, externalIf, cachedServerList, listeners, sync, em, probes, timer, addrCall, inbound>>

\* router.post('/emit') in process p: localEmit under the decoded identifier.
WirePostEmit(p) ==
    /\ wire.msg # <<>>
    /\ Len(wire.heard[p]) < MaxHeard
    /\ wire' = [wire EXCEPT !.heard[p] = Append(@, EmitTarget(wire.msg[1]))]
    /\ UNCHANGED <<st, options, externalIf, cachedServerList, listeners, sync, em, probes, timer, addrCall, inbound>>

\* WebEventEmitterClient.eventNames() against the queried emitter.
WireEventNames ==
    /\ wire' = [wire EXCEPT !.query = <<ClientEventNames(EventNamesBody(wire.names))>>]
    /\ UNCHANGED <<st, options, externalIf, cachedServerList, listeners, sync, em, probes, timer, addrCall, inbound>>

\* ------------------------------------------------------- an address() call
AddressCall ==
    /\ ~addrCall.done
    /\ addrCall' = [addrCall EXCEPT !.done = TRUE, !.out = address(addrCall.in)]
    /\ UNCHANGED <<st, options, externalIf, cachedServerList, listeners, sync, em, probes, timer, wire, inbound>>

\* ------------------------------------------------- calls that never return
\* The timeout each client call is made with: isAlive passes timeout: 100,
\* the other calls pass none and the client's got instance sets none.
CallTimeout(call) == IF call = "isAlive" THEN "100ms" ELSE "none"

\* The client call a sync task in state s is waiting for.
TaskCall(s) == IF s = "probe" THEN "isAlive" ELSE "serverNames"

\* The peer has accepted the request of sync task i and never answers: a
\* call made without timeout stays pending for good.
SyncHang(n, i) ==
    /\ sync[n].active
    /\ i \in 1..Len(sync[n].br)
    /\ sync[n].br[i].st \in {"probe", "names"}
    /\ CallTimeout(TaskCall(sync[n].br[i].st)) = "none"
    /\ sync' = [sync EXCEPT ![n].br[i].st = "hung"]
    /\ UNCHANGED <<st, options, externalIf, cachedServerList, listeners, em, probes, timer, wire, addrCall, inbound>>

\* ---------------------------------------------- an inbound /emit request
InboundEmit ==
    /\ ~inbound.done
    /\ inbound' = [inbound EXCEPT !.done = TRUE, !.out = PostEmit(inbound.body, inbound.ls)]
    /\ UNCHANGED <<st, options, externalIf, cachedServerList, listeners, sync, em, probes, timer, wire, addrCall>>

\* ------------------------------------------------------------------- Next
\* The seed of each node in the bootstrap chain A <- B <- C.
ChainSeed(n) == IF n = "A" THEN NoSeed ELSE IF n = "B" THEN "A" ELSE "B"

Next ==
    \/ \E n \in Nodes : \E seed \in ((Addrs \cup Alias) \ {n}) \cup {NoSeed} : Create(n, seed)
    \/ \E n \in Nodes, i \in 1..3 : SyncProbe(n, i)
    \/ \E n \in Nodes, i \in 1..3 : SyncNames(n, i)
    \/ \E n \in Nodes : SyncFinish(n)
    \/ \E n \in Nodes : SyncReject(n)
    \/ \E n \in Nodes : Listen(n)
    \/ \E n \in Nodes : Close(n)
    \/ \E n \in Nodes : TimerFire(n)
    \/ \E n \in Nodes : TimerDrop(n)
    \/ \E n \in Nodes : Dispose(n)
    \/ \E n \in Nodes, ev \in Events, k \in ListenerKinds : On(n, ev, k)
    \/ \E n \in Nodes, kind \in {"emit", "globalEmit"}, ev \in Events, args \in ArgLists :
          EmitCall(n, kind, ev, args)
    \/ \E e \in 1..MaxEmits : FanOut(e)
    \/ \E e \in 1..MaxEmits, i \in 1..4 : HandleEmit(e, i)
    \/ \E e \in 1..MaxEmits, i \in 1..4 : TransportFail(e, i)
    \/ \E e \in 1..MaxEmits : Finish(e)

\* Emissions among the nodes as they are created, listened to and closed.
NextEmit ==
    \/ \E n \in Pair : \E seed \in ((Pair \cup Foreign) \ {n}) \cup {NoSeed} : Create(n, seed)
    \/ \E n \in Pair, i \in 1..3 : SyncProbe(n, i)
    \/ \E n \in Pair, i \in 1..3 : SyncNames(n, i)
    \/ \E n \in Pair : SyncFinish(n)
    \/ \E n \in Pair : SyncReject(n)
    \/ \E n \in Pair : Listen(n)
    \/ \E n \in Pair, ev \in Events, k \in ListenerKinds : On(n, ev, k)
    \/ \E n \in Pair, kind \in {"emit", "globalEmit"}, ev \in Events, args \in ArgLists :
          EmitCall(n, kind, ev, args)
    \/ \E e \in 1..MaxEmits : FanOut(e)
    \/ \E e \in 1..MaxEmits, i \in 1..4 : HandleEmit(e, i)
    \/ \E e \in 1..MaxEmits, i \in 1..4 : TransportFail(e, i)
    \/ \E e \in 1..MaxEmits : Finish(e)

\* Stand-alone probes against the nodes as they are created and closed.
NextProbe ==
    \/ \E n \in Pair : \E seed \in ((Pair \cup Foreign) \ {n}) \cup {NoSeed} : Create(n, seed)
    \/ \E n \in Pair, i \in 1..3 : SyncProbe(n, i)
    \/ \E n \in Pair, i \in 1..3 : SyncNames(n, i)
    \/ \E n \in Pair : SyncFinish(n)
    \/ \E n \in Pair : SyncReject(n)
    \/ \E n \in Pair : Listen(n)
    \/ \E n \in Pair : Close(n)
    \/ \E a \in Pair \cup Foreign : ProbeStart(a)
    \/ \E p \in 1..MaxProbes : ProbeEnd(p)

\* Peer discovery among the pair: creation with any seed (another node, the
\* foreign server, node A's URL without trailing slash), timer-driven sync
\* cycles, close and dispose.
NextSync ==
    \/ \E n \in Pair : \E seed \in ((Pair \cup Foreign \cup Alias) \ {n}) \cup {NoSeed} :
          Create(n, seed)
    \/ \E n \in Pair, i \in 1..3 : SyncProbe(n, i)
    \/ \E n \in Pair, i \in 1..3 : SyncNames(n, i)
    \/ \E n \in Pair : SyncFinish(n)
    \/ \E n \in Pair : SyncReject(n)
    \/ \E n \in Pair : Listen(n)
    \/ \E n \in Pair : Close(n)
    \/ \E n \in Pair : TimerFire(n)
    \/ \E n \in Pair : TimerDrop(n)
    \/ \E n \in Pair : Dispose(n)

\* A bootstrap chain of three nodes: node i is created with connectTo =
\* node i-1; nodes listen, close, and run timer-driven sync cycles.
NextChain ==
    \/ \E n \in Nodes : Create(n, ChainSeed(n))
    \/ \E n \in Nodes, i \in 1..3 : SyncProbe(n, i)
    \/ \E n \in Nodes, i \in 1..3 : SyncNames(n, i)
    \/ \E n \in Nodes : SyncFinish(n)
    \/ \E n \in Nodes : SyncReject(n)
    \/ \E n \in Nodes : Listen(n)
    \/ \E n \in Nodes : Close(n)
    \/ \E n \in Nodes : TimerFire(n)

\* One event name: listeners come and go on the queried emitter, the name is
\* emitted to the receiving processes, the emitter's names are queried.
NextWire ==
    \/ \E x \in ListenNames : WireOn(x)
    \/ \E x \in ListenNames : WireOff(x)
    \/ WireEmit
    \/ \E p \in Procs : WirePostEmit(p)
    \/ WireEventNames

NextAddress == AddressCall

\* Peer discovery among the pair with peers that may accept a request and
\* never answer it.
NextStall ==
    \/ \E n \in Pair : \E seed \in (Pair \ {n}) \cup {NoSeed} : Create(n, seed)
    \/ \E n \in Pair, i \in 1..3 : SyncProbe(n, i)
    \/ \E n \in Pair, i \in 1..3 : SyncNames(n, i)
    \/ \E n \in Pair, i \in 1..3 : SyncHang(n, i)
    \/ \E n \in Pair : SyncFinish(n)
    \/ \E n \in Pair : SyncReject(n)
    \/ \E n \in Pair : Listen(n)
    \/ \E n \in Pair : Close(n)
    \/ \E n \in Pair : TimerFire(n)

\* Every operation of an instance side by side: creation, sync cycles,
\* listen, close, dispose, listeners, emissions and their handling by peers.
NextFrame ==
    \/ \E n \in Pair : Create(n, ChainSeed(n))
    \/ \E n \in Pair, i \in 1..3 : SyncProbe(n, i)
    \/ \E n \in Pair, i \in 1..3 : SyncNames(n, i)
    \/ \E n \in Pair : SyncFinish(n)
    \/ \E n \in Pair : SyncReject(n)
    \/ \E n \in Pair : Listen(n)
    \/ \E n \in Pair : Close(n)
    \/ \E n \in Pair : TimerFire(n)
    \/ \E n \in Pair : TimerDrop(n)
    \/ \E n \in Pair : Dispose(n)
    \/ \E ev \in Events : On("A", ev, "ok")
    \/ \E n \in Pair, kind \in {"emit", "globalEmit"}, ev \in Events :
          EmitCall(n, kind, ev, <<>>)
    \/ \E e \in 1..MaxEmits : FanOut(e)
    \/ \E e \in 1..MaxEmits, i \in 1..4 : HandleEmit(e, i)
    \/ \E e \in 1..MaxEmits, i \in 1..4 : TransportFail(e, i)
    \/ \E e \in 1..MaxEmits : Finish(e)

\* The bootstrap chain with emissions: sync cycles over several servers and
\* fan-outs to several peers.
NextFan ==
    \/ \E n \in Nodes : Create(n, ChainSeed(n))
    \/ \E n \in Nodes, i \in 1..3 : SyncProbe(n, i)
    \/ \E n \in Nodes, i \in 1..3 : SyncNames(n, i)
    \/ \E n \in Nodes : SyncFinish(n)
    \/ \E n \in Nodes : SyncReject(n)
    \/ \E n \in Nodes : Listen(n)
    \/ \E n \in Nodes : TimerFire(n)
    \/ \E n \in Nodes, kind \in {"emit", "globalEmit"}, ev \in Events :
          EmitCall(n, kind, ev, <<>>)
    \/ \E e \in 1..MaxEmits : FanOut(e)
    \/ \E e \in 1..MaxEmits, i \in 1..4 : HandleEmit(e, i)
    \/ \E e \in 1..MaxEmits, i \in 1..4 : TransportFail(e, i)
    \/ \E e \in 1..MaxEmits : Finish(e)

NextInbound == InboundEmit

\* The seed of each node when A bootstraps from the foreign server and B
\* from A.
RecurSeed(n) == IF n = "A" THEN "X" ELSE "A"

\* Recurring sync: creation, sync cycles driven by Create and by the timer,
\* listen, close and dispose.
NextRecur ==
    \/ \E n \in Pair : Create(n, RecurSeed(n))
    \/ \E n \in Pair, i \in 1..3 : SyncProbe(n, i)
    \/ \E n \in Pair, i \in 1..3 : SyncNames(n, i)
    \/ \E n \in Pair : SyncFinish(n)
    \/ \E n \in Pair : SyncReject(n)
    \/ \E n \in Pair : Listen(n)
    \/ \E n \in Pair : Close(n)
    \/ \E n \in Pair : TimerFire(n)
    \/ \E n \in Pair : TimerDrop(n)
    \/ \E n \in Pair : Dispose(n)

Spec == Init /\ [][Next]_vars

\* The runtime runs the callback of a timer that stays armed.
SpecRecur ==
    Init /\ [][NextRecur]_vars /\ \A n \in Pair : WF_vars(TimerFire(n))

SpecInbound == InitInbound /\ [][NextInbound]_vars

SpecFan == Init /\ [][NextFan]_vars

SpecStall == Init /\ [][NextStall]_vars

SpecFrame == Init /\ [][NextFrame]_vars

SpecWire == InitWire /\ [][NextWire]_vars

SpecAddress == InitAddress /\ [][NextAddress]_vars

SpecChain == Init /\ [][NextChain]_vars

SpecSync == Init /\ [][NextSync]_vars

SpecEmit == Init /\ [][NextEmit]_vars

SpecProbe == Init /\ [][NextProbe]_vars

\* ------------------------------------------------------------------ claims

\* C1: whatever the peers of a globalEmit answer (hadListeners true or
\* false, a transport failure, a malformed acknowledgement), the call is
\* never failed by a peer call - it raises only before any remoteEmit was
\* started - and it returns true exactly when the local dispatch had a
\* listener or some peer call succeeded and reported hadListeners = true.
C1_GlobalEmitIsOrOfLocalAndPeers ==
    \A e \in 1..Len(em) :
        em[e].kind = "globalEmit" =>
            /\ em[e].ret = "raised" =>
                  em[e].br = <<>> /\ em[e].err \in {"listener", "address"}
            /\ em[e].pc = "done" => em[e].ret # "pending"
            /\ (em[e].pc = "done" /\ em[e].ret # "raised") =>
                  (em[e].ret = "true" <=>
                      \/ em[e].local = "true"
                      \/ \E i \in 1..Len(em[e].br) : em[e].br[i].val = "true")

\* A globalEmit without local listeners returned true although one of its
\* peer calls had been posted and failed: another peer reported a listener.
C1_Witness ==
    \E e \in 1..Len(em) :
        /\ em[e].kind = "globalEmit" /\ em[e].pc = "done"
        /\ em[e].local = "false" /\ em[e].ret = "true"
        /\ \E i, j \in 1..Len(em[e].br) :
              /\ em[e].br[i].posted /\ em[e].br[i].val = "error"
              /\ em[e].br[j].val = "true"

\* C2: on a listening node with a working local listener and an empty cached
\* server list, one emit or globalEmit (whose address resolution did not
\* fail) invokes the first listener exactly once, counting direct and inbound
\* invocations, and returns true.
C2_ListenerInvokedOnceWithoutPeers ==
    \A e \in 1..Len(em) :
        (/\ Served(em[e].origin) /\ em[e].err = "none"
         /\ cachedServerList[em[e].origin] = <<>>
         /\ em[e].origin \in em[e].okAtCall) =>
            /\ em[e].inv[em[e].origin][1] = 1
            /\ em[e].pc = "done" => em[e].ret = "true"

\* C3: no remoteEmit branch of an emission is addressed to the emitting node
\* itself, and with an empty cached server list no branch is opened at all.
C3_NoEmitToSelf ==
    \A e \in 1..Len(em) :
        /\ \A i \in 1..Len(em[e].br) : em[e].targets[i] # AddrOf(em[e].origin)
        /\ cachedServerList[em[e].origin] = <<>> => em[e].br = <<>>

\* C4: a globalEmit on node A that completed, with node B in A's cached
\* server list, B listening with a working listener since before the call
\* and no transport failure on the call to B, returned true and invoked B's
\* listener exactly once.
C4_PeerListenerFiresOnce ==
    \A e \in 1..Len(em) : \A b \in Nodes :
        (/\ em[e].kind = "globalEmit" /\ em[e].pc = "done" /\ em[e].err = "none"
         /\ b # em[e].origin
         /\ \E k \in 1..Len(cachedServerList[em[e].origin]) :
               cachedServerList[em[e].origin][k] = AddrOf(b)
         /\ Served(b) /\ b \in em[e].okAtCall
         /\ \A i \in 1..Len(em[e].br) :
               (em[e].targets[i] = AddrOf(b) /\ em[e].br[i].posted) =>
                   em[e].br[i].val # "error") =>
            /\ em[e].ret = "true"
            /\ em[e].inv[b][1] = 1

\* C5: whenever a remoteEmit branch of an emission has been opened, the local
\* dispatch of that emission is complete and its result is known.
C5_LocalBeforeRemote ==
    \A e \in 1..Len(em) :
        em[e].br # <<>> => em[e].localDone /\ em[e].local \in {"true", "false"}

\* A call is in flight to a peer after the local listener has been invoked.
C5_Witness ==
    \E e \in 1..Len(em) :
        /\ em[e].local = "true" /\ em[e].inv[em[e].origin][1] = 1
        /\ \E i \in 1..Len(em[e].br) : em[e].br[i].st = "sent"

\* C6: in every state after the call, the caller of emit holds the local
\* dispatch result (or the exception of the synchronous part): the value is
\* there before the fan-out starts and no outcome of the fan-out changes it.
C6_EmitReturnsLocalResult ==
    \A e \in 1..Len(em) :
        em[e].kind = "emit" =>
            em[e].ret = IF em[e].local \in {"true", "false"} THEN em[e].local ELSE "raised"

\* An emit returned false, and its background fan-out later found a peer with
\* listeners.
C6_Witness ==
    \E e \in 1..Len(em) :
        /\ em[e].kind = "emit" /\ em[e].pc = "done"
        /\ em[e].ret = "false" /\ em[e].remote = "true"

\* C7: an emission whose argument list contains a function raises a
\* serialization error in its synchronous part and posts no request.
C7_FunctionArgumentRaises ==
    \A e \in 1..Len(em) :
        (\E k \in 1..Len(em[e].args) : em[e].args[k] = "function") =>
            /\ em[e].ret = "raised" /\ em[e].err = "serialization"
            /\ \A i \in 1..Len(em[e].br) : ~em[e].br[i].posted

\* C8: a dispatch on a node (a step in which a listener of the node is
\* invoked for an emission) invokes every listener registered for the event,
\* also those registered after a listener that throws.
C8_LaterListenersStillInvoked ==
    [][\A e \in 1..Len(em') : \A n \in Nodes :
          LET old == IF e <= Len(em) THEN em[e].inv[n] ELSE NoInvocations[n]
          IN  em'[e].inv[n] # old =>
                 \A j \in 1..Len(listeners[n][em'[e].event]) : em'[e].inv[n][j] > old[j]]_vars

\* C9: a listener failure does not leave the dispatch: a call of emit or
\* globalEmit on a node with listeners has the local result true and is not
\* failed by a listener, and an inbound emit handled by a node with
\* listeners is acknowledged with hadListeners = true.
C9_ListenerFailureIsIsolated ==
    [][/\ Len(em') > Len(em) =>
             LET e == em'[Len(em')]
             IN  listeners[e.origin][e.event] # <<>> =>
                    e.local = "true" /\ e.err # "listener"
       /\ \A e \in 1..Len(em) : \A i \in 1..Len(em[e].br) :
             (/\ em[e].br[i].st = "sent"
              /\ Len(em') = Len(em) /\ em'[e].br[i].st = "settled"
              /\ em'[e].inv # em[e].inv) =>
                 ClientEmitResult(EmitBody(em[e].targets[i], em[e].event)) = "true"]_vars

\* C10: isAlive returns true exactly when the peer answered the status
\* request with a well-formed success response (success true, the server
\* list present), and false in every other case.
C10_IsAliveIffWellFormedSuccess ==
    \A p \in 1..Len(probes) :
        probes[p].st = "done" =>
            probes[p].result =
                IF /\ probes[p].resp.ok
                   /\ probes[p].resp.success = "true"
                   /\ probes[p].resp.hasServers
                THEN "true" ELSE "false"

\* C11: a serverNames() call of the client (as made by a sync task) ends by
\* raising or by returning a defined array, never by returning undefined.
C11_ClientReturnsDefinedOrRaises ==
    \A n \in Nodes : \A i \in 1..Len(sync[n].br) :
        sync[n].br[i].names \in {"none", "array", "raised"}

\* C12: when a sync cycle of node n completes (every task has returned), the
\* stored list becomes, without duplicates, the union over the servers of the
\* starting set that answered the liveness probe of the server itself and
\* the peer list it reported; nothing else is in it.
C12_SyncStoresUnionOfAliveReports ==
    [][\A n \in Nodes :
          (/\ sync[n].active /\ ~sync'[n].active
           /\ \A i \in 1..Len(sync[n].br) : sync[n].br[i].st = "done" /\ ~sync[n].br[i].err) =>
              LET br == sync[n].br
                  alive == {i \in 1..Len(br) : br[i].val # <<>>}
                  reported(i) == IF br[i].names = "array" THEN Range(Tail(br[i].val)) ELSE {}
                  new == cachedServerList'[n]
              IN  /\ sync[n].servers = OldServers(n, IF sync[n].src = "create"
                                                     THEN options[n].connectTo ELSE NoSeed)
                  /\ Range(new) = UNION {{sync[n].servers[i]} \cup reported(i) : i \in alive}
                  /\ \A j, k \in 1..Len(new) : new[j] = new[k] => j = k]_vars

\* C13: when a sync cycle of node n completes, no address of the starting set
\* that failed its liveness probe in this cycle is in the list the cycle
\* stores.
C13_FailedProbeIsDropped ==
    [][\A n \in Nodes :
          (/\ sync[n].active /\ ~sync'[n].active
           /\ \A i \in 1..Len(sync[n].br) : sync[n].br[i].st = "done" /\ ~sync[n].br[i].err) =>
              \A i \in 1..Len(sync[n].br) :
                  (sync[n].br[i].val = <<>> /\ sync[n].servers[i] # Undef) =>
                      sync[n].servers[i] \notin Range(cachedServerList'[n])]_vars

\* C14: in the bootstrap chain A <- B <- C, once every node has run sync
\* cycles until its list no longer changes, the peer list of every created
\* node is exactly the set of addresses reachable from it.
C14_ChainConvergesToReachable ==
    (externalIf /\ Converged) =>
        \A n \in Nodes : Created(n) => Range(serverList(n)) = Reach(n)

\* The chain has converged after node A was closed: node C, which had learnt
\* A through B, now lists exactly B and itself.
C14_Witness ==
    /\ externalIf /\ Converged
    /\ st["A"] = "closed" /\ st["B"] = "listening" /\ st["C"] = "listening"
    /\ Range(serverList("C")) = {"B", "C"}

C16_NoTwoEntriesForOneAddress ==
    \A n \in Nodes :
        \A j, k \in 1..Len(serverList(n)) :
            Normalize(serverList(n)[j]) = Normalize(serverList(n)[k]) => j = k

C18_SeedLearnsOfNewNode ==
    (/\ st["A"] = "listening" /\ ~AddressThrows("A")
     /\ options["B"].connectTo = AddrOf("A") /\ st["B"] = "listening") =>
        \A body \in StatusReplies(AddrOf("A")) :
            body.ok => {AddrOf("A"), AddrOf("B")} \subseteq Range(body.servers)

\* C19: a timer-driven sync cycle over a list of addresses only ends when all
\* its tasks have ended, and then stores the merged contributions of the
\* tasks that did not fail: a peer whose status fetch failed after it answered
\* the probe is dropped, the cycle is not abandoned.
C19_FailedFetchDropsOnlyThatPeer ==
    [][\A n \in Nodes :
          (/\ sync[n].active /\ sync[n].src = "timer" /\ ~sync'[n].active
           /\ Undef \notin Range(sync[n].servers)) =>
              LET br == sync[n].br
                  kept == [i \in 1..Len(br) |->
                             [val |-> IF br[i].err THEN <<>> ELSE br[i].val]]
              IN  /\ \A i \in 1..Len(br) : br[i].st = "done"
                  /\ cachedServerList'[n] = NewServerList(kept)]_vars

\* C20: once dispose() has been called on a node, no sync cycle starts on it
\* any more - also when dispose() was called while a timer-driven cycle was
\* in flight and that cycle's completion refreshed the timer.
C20_NoCycleAfterDispose ==
    [][\A n \in Nodes :
          st[n] = "disposed" =>
              /\ st'[n] = "disposed"
              /\ ~(sync'[n].active /\ ~sync[n].active)]_vars

\* dispose() came while a timer-driven cycle was in flight; the cycle has
\* ended since and its `finally` has refreshed the cleared timer.
C20_Witness ==
    \E n \in Nodes :
        st[n] = "disposed" /\ ~sync[n].active /\ timer[n].scheduled

\* C21: once dispose() has returned, the node starts no further request of
\* a sync cycle that was in flight (a task whose probe is answered does not
\* go on to fetch the peer's status) and its stored list is not assigned.
C21_DisposeCancelsInFlightSync ==
    [][\A n \in Nodes :
          st[n] = "disposed" =>
              /\ cachedServerList'[n] = cachedServerList[n]
              /\ \A i \in 1..Len(sync[n].br) :
                    (sync'[n].active /\ sync'[n].br[i].st = "names") =>
                        sync[n].br[i].st = "names"]_vars

\* C22: dispose() on any instance Create has returned - listening, closed or
\* already disposed - raises nothing and ends not listening with the timer
\* cancelled, and a further dispose() leaves exactly that state.
C22_DisposeIsIdempotent ==
    \A n \in Nodes :
        Created(n) =>
            LET r == DisposeEffect(st[n], timer[n])
            IN  /\ ~r.raised
                /\ r.st = "disposed"
                /\ ~r.timer.onTimeout
                /\ DisposeEffect(r.st, r.timer) = r
                /\ st[n] = "disposed" => (r.st = st[n] /\ r.timer = timer[n])

\* C22 witness: a node disposed while a cycle its timer started is running.
C22_Witness ==
    \E n \in Nodes :
        /\ st[n] = "disposed"
        /\ sync[n].active /\ sync[n].src = "timer"
        /\ ~timer[n].scheduled

\* C23: a plain string name - one spelled 'Symbol(x)' included - reaches
\* localEmit in the receiver as that same string, sent with symbol = false; a
\* symbol with display text t reaches it as the registry symbol for t; all
\* deliveries of one request, in two processes or twice in one, are under
\* equal identifiers.
C23_NameRoundTrip ==
    \A p \in Procs : \A i \in 1..Len(wire.heard[p]) :
        /\ wire.event.kind = "string" =>
               (wire.heard[p][i] = wire.event /\ ~wire.msg[1].symbol)
        /\ wire.event.kind = "symbol" =>
               wire.heard[p][i] = SymbolFor(wire.event.text)
        /\ \A q \in Procs : \A j \in 1..Len(wire.heard[q]) :
               wire.heard[q][j] = wire.heard[p][i]

\* C23 witness: a symbol of the sender's own, with a description that itself
\* reads 'Symbol(x)', delivered in process P and twice in process Q.
C23_Witness ==
    /\ wire.event = Sym(<<"Symbol(", "x", ")">>, "sender")
    /\ Len(wire.heard["P"]) >= 1
    /\ Len(wire.heard["Q"]) = 2

\* C24: address() returns no address while the server is not listening;
\* while it listens, the baseUrl as it is if one is set, else a URL of the
\* configured host and the bound port, else a URL of the first external
\* network interface and the bound port.
C24_AddressPriority ==
    addrCall.done =>
        LET in == addrCall.in
            out == addrCall.out
            ext == External(in.interfaces)
        IN  IF ~in.listening THEN out = AddrNull
            ELSE IF in.baseUrl # "" THEN out = AddrBase(in.baseUrl)
            ELSE IF in.host # "" THEN out = AddrUrl(in.host, BoundPort(in), FALSE)
            ELSE /\ out.kind = "url"
                 /\ Len(ext) > 0
                 /\ out.host = ext[1].address
                 /\ out.port = BoundPort(in)

\* C25: the node state an instance reports is RUNNING exactly while it is
\* listening: an instance that has been closed or disposed does not report
\* RUNNING.
C25_NodeStateFollowsLifecycle ==
    \A n \in Nodes :
        Created(n) => (serverStatus(n) = "RUNNING" <=> st[n] = "listening")

\* C26: when a sync cycle of a listening node ends having found none of its
\* one or more servers reachable, the node reports the network state DOWN;
\* when it found every one of them reachable, HEALTHY.
C26_NetworkStateFollowsLastSync ==
    [][\A n \in Nodes :
          (/\ st[n] = "listening"
           /\ sync[n].active /\ ~sync'[n].active
           /\ Len(sync[n].br) >= 1
           /\ \A i \in 1..Len(sync[n].br) :
                 sync[n].br[i].st = "done" /\ ~sync[n].br[i].err)
          => /\ (\A i \in 1..Len(sync[n].br) : sync[n].br[i].val = <<>>)
                   => networkStatus(n) = "DOWN"
             /\ (\A i \in 1..Len(sync[n].br) : sync[n].br[i].val # <<>>)
                   => networkStatus(n) = "HEALTHY"]_vars

\* C27: the /status body of a listening node carries the node's current
\* server list as `servers` and, as `eventNames`, exactly the events that
\* have a listener on the node.
C27_StatusSnapshot ==
    \A a \in Nodes :
        (st[a] = "listening" /\ ~AddressThrows(a)) =>
            /\ StatusBody(a).servers = serverList(a)
            /\ Range(StatusEventNames(a)) = eventNames(a)

\* C28: a remote event-name query answers with exactly the names that have
\* a listener on the queried emitter at that time.
C28_QueryReturnsListenedNames ==
    [][wire'.query # wire.query =>
          /\ ~wire'.query[1].raised
          /\ Range(wire'.query[1].events) = Range(wire.names)]_vars

\* C29: no call of a sync cycle stays pending for good on a peer that
\* accepted the request and never answers: every call is ended by a timeout
\* of its own, so that the cycle can complete.
C29_NoCallHangs ==
    \A n \in Nodes :
        sync[n].active => \A i \in 1..Len(sync[n].br) : sync[n].br[i].st # "hung"

\* C30: the cached server list of a node is assigned only when the instance
\* is constructed and when a sync cycle of the node ends; every other step -
\* emit, globalEmit, listen, close, dispose, listener registration, the
\* handling of inbound requests - leaves it as it is.
C30_OnlySyncWritesServerList ==
    [][\A n \in Nodes :
          cachedServerList'[n] # cachedServerList[n] =>
              \/ st[n] = "absent" /\ st'[n] # "absent"
              \/ sync[n].active /\ ~sync'[n].active]_vars

\* C30 witness: a globalEmit that a peer has handled has completed on a
\* node that holds a non-empty list and has since been disposed.
C30_Witness ==
    \E e \in 1..Len(em) :
        /\ em[e].kind = "globalEmit" /\ em[e].pc = "done"
        /\ Len(em[e].br) >= 1
        /\ st[em[e].origin] = "disposed"
        /\ cachedServerList[em[e].origin] # <<>>

\* C31: while a timer-driven cycle of a node runs, the node's stored list is
\* the complete list the cycle started from, and the step that ends the
\* cycle stores the complete new list; the targets of an emission are fixed
\* when its remote phase starts: no later step, a cycle's end included,
\* changes them, and the fan-out opens one branch per target.
C31_SnapshotAndAtomicReplace ==
    [][/\ \A n \in Nodes :
             /\ (sync[n].active /\ sync[n].src = "timer") =>
                    cachedServerList[n] = sync[n].servers
             /\ (Created(n) /\ cachedServerList'[n] # cachedServerList[n]) =>
                    /\ sync[n].active /\ ~sync'[n].active
                    /\ cachedServerList'[n] = NewServerList(sync[n].br)
       /\ \A e \in 1..Len(em) :
             em[e].pc \in {"snap", "fanout"} =>
                 /\ em'[e].targets = em[e].targets
                 /\ em'[e].pc = "fanout" => Len(em'[e].br) = Len(em[e].targets)]_vars

\* C31 witness: a fan-out in flight whose targets are no longer the node's
\* server list, a sync cycle having replaced the list in the meantime.
C31_Witness ==
    \E e \in 1..Len(em) :
        /\ em[e].pc = "fanout"
        /\ \E i \in 1..Len(em[e].br) : em[e].br[i].st = "sent"
        /\ ~sync[em[e].origin].active
        /\ \E i \in 1..Len(em[e].targets) :
              /\ em[e].targets[i] # AddrOf(em[e].origin)
              /\ em[e].targets[i] \notin Range(cachedServerList[em[e].origin])

\* C32: a fan-out has issued the call of every branch before any branch is
\* awaited - one branch per target, every sync task past its start - and a
\* branch still pending can complete whatever state the other branches of
\* the same fan-out are in.
C32_BranchesAreIndependent ==
    /\ \A e \in 1..Len(em) :
          em[e].pc = "fanout" =>
              /\ Len(em[e].br) = Len(em[e].targets)
              /\ \A i \in 1..Len(em[e].br) :
                    /\ em[e].br[i].st \in {"sent", "settled"}
                    /\ em[e].br[i].st = "sent" =>
                           ENABLED (HandleEmit(e, i) \/ TransportFail(e, i))
    /\ \A n \in Nodes :
          sync[n].active =>
              /\ Len(sync[n].br) = Len(sync[n].servers)
              /\ \A i \in 1..Len(sync[n].br) :
                    /\ sync[n].br[i].st \in {"probe", "names", "done"}
                    /\ sync[n].br[i].st = "probe" => ENABLED SyncProbe(n, i)
                    /\ sync[n].br[i].st = "names" => ENABLED SyncNames(n, i)

\* C32 witness: a later branch of a fan-out has been answered by its peer
\* while the first branch is still pending.
C32_Witness ==
    \E e \in 1..Len(em) :
        /\ em[e].pc = "fanout"
        /\ Len(em[e].br) >= 2
        /\ em[e].br[1].st = "sent"
        /\ \E i \in 2..Len(em[e].br) :
              em[e].br[i].st = "settled" /\ em[e].br[i].val # "error"

\* C33: a POST /emit is dispatched to the listeners exactly when its body
\* has an `event` (neither missing nor null), a `symbol` that is missing, null
\* or a boolean, and `args` that are missing, null, an array or an object;
\* every other body is answered with an error and invokes no listener.
C33_DispatchedIffWellFormed ==
    inbound.done =>
        LET b == inbound.body
            wellFormed == /\ b.event \notin {"absent", "null"}
                          /\ b.symbol \in {"absent", "null", "true", "false"}
                          /\ b.args \in {"absent", "null", "array", "object"}
        IN  /\ inbound.out.dispatched <=> wellFormed
            /\ ~wellFormed => (inbound.out.status = "400" /\ inbound.out.invoked = 0)

\* C34: an emission whose arguments are all data - plain objects, arrays,
\* primitive values - or that has no arguments is posted to every server of
\* its snapshot: no branch is rejected before its request is sent.
C34_DataArgumentsAreTransmitted ==
    \A e \in 1..Len(em) :
        (/\ em[e].pc \in {"fanout", "done"}
         /\ em[e].err = "none"
         /\ \A k \in 1..Len(em[e].args) :
               em[e].args[k] \in {"object", "array", "primitive"})
        => /\ Len(em[e].br) = Len(em[e].targets)
           /\ \A i \in 1..Len(em[e].br) : em[e].br[i].posted

\* C35: the step that ends a timer-driven cycle of a node that is not
\* disposed - the cycle completed or failed - leaves the timer armed with
\* its callback, and a node that is not disposed and whose timer is armed
\* eventually starts another timer-driven cycle, unless it is disposed first.
C35_SyncRecurs ==
    /\ [][\A n \in Pair :
             (/\ sync[n].active /\ sync[n].src = "timer" /\ ~sync'[n].active
              /\ st'[n] # "disposed")
             => (timer'[n].scheduled /\ timer'[n].onTimeout)]_vars
    /\ \A n \in Pair :
          (/\ Created(n) /\ st[n] # "disposed"
           /\ ~sync[n].active
           /\ timer[n].scheduled /\ timer[n].onTimeout)
          ~> ((sync[n].active /\ sync[n].src = "timer") \/ st[n] = "disposed")

\* C35 witness: a further timer-driven cycle is running on a node whose
\* list a completed timer-driven cycle has stored: the list no longer starts
\* with the seed, as every list stored by Create does.
C35_Witness ==
    \E n \in Pair :
        /\ st[n] \in {"listening", "closed"}
        /\ options[n].connectTo # NoSeed
        /\ cachedServerList[n] # <<>>
        /\ cachedServerList[n][1] # options[n].connectTo
        /\ sync[n].active /\ sync[n].src = "timer"

\* C36: Create with connectTo goes on past its liveness probe only when the
\* seed answered it alive; a seed sync that fails makes Create fail; and an
\* instance whose Create failed never listens and is never handed out.
C36_FailedCreateNeverListens ==
    [][\A n \in Nodes :
          /\ (st[n] = "absent" /\ st'[n] = "syncing") =>
                \E resp \in StatusReplies(options'[n].connectTo) : isAlive(resp) = "true"
          /\ (st[n] = "absent" /\ st'[n] = "ready") => options'[n].connectTo = NoSeed
          /\ (st[n] = "syncing" /\ \E i \in 1..Len(sync[n].br) : sync[n].br[i].err) =>
                st'[n] \in {"syncing", "failed"}
          /\ st[n] = "failed" => st'[n] = "failed"
          /\ st'[n] = "listening" => st[n] \in {"ready", "listening"}]_vars

\* C36 witness: a Create has failed although the node it named as seed is
\* listening - the probe or the seed sync did not get its answer.
C36_Witness ==
    \E n \in Nodes, m \in Nodes :
        st[n] = "failed" /\ st[m] = "listening"

C38_RemoteListenersGetSameArguments ==
    [][\A e \in 1..Len(em) :
          (\E m \in Nodes : em'[e].inv[m] # em[e].inv[m]) =>
              HandlerCallArgs(em[e].args) = LocalCallArgs(em[e].args)]_vars

\* C39: once the stored list of an instance Create has returned is empty,
\* it stays empty, and every cycle that starts has no server to probe - also
\* when the instance was created with a seed and the seed is listening.
C39_EmptyListIsAbsorbing ==
    [][\A n \in Nodes :
          (Created(n) /\ cachedServerList[n] = <<>>) =>
              /\ cachedServerList'[n] = <<>>
              /\ sync'[n].active => (sync'[n].servers = <<>> /\ sync'[n].br = <<>>)]_vars

\* C39 witness: a timer-driven cycle with nothing to probe runs on a node
\* whose list is empty while the node it was seeded with is listening.
C39_Witness ==
    \E n \in Nodes :
        /\ st[n] = "listening"
        /\ options[n].connectTo \in Nodes
        /\ st[options[n].connectTo] = "listening"
        /\ cachedServerList[n] = <<>>
        /\ sync[n].active /\ sync[n].src = "timer" /\ sync[n].br = <<>>

\* C40: while a timer-driven cycle of a node is in flight its timer is not
\* armed, so the callback cannot start a second cycle beside it.
C40_TimerCyclesDoNotOverlap ==
    \A n \in Nodes :
        (sync[n].active /\ sync[n].src = "timer") =>
            ~(timer[n].scheduled /\ timer[n].onTimeout)

\* C40 witness: a timer-driven cycle is held up by a peer - one task still
\* waits for the peer's status, another has finished - and the timer of the
\* node, which still listens, is not in the timer list.
C40_Witness ==
    \E n \in Nodes :
        /\ st[n] = "listening"
        /\ sync[n].active /\ sync[n].src = "timer"
        /\ \E i, j \in 1..Len(sync[n].br) :
              sync[n].br[i].st = "names" /\ sync[n].br[j].st = "done"
        /\ ~timer[n].scheduled

====
